---- MODULE Spec2Model ----
(***************************************************************************)
(* A model of src/main.py: validate_spritesheet_name and render_font.      *)
(*                                                                         *)
(* A Python str is a sequence of one-character strings.  An image is a     *)
(* record of its mode, its size and its pixel buffer; the font library,    *)
(* the image library and the filesystem are modelled by what the calls in  *)
(* main.py rely on: the box getbbox reports, the size check of Image.new,  *)
(* the pixels draw.text and paste change, the mask paste accepts, the      *)
(* path os.path.join builds and the file save leaves behind.               *)
(***************************************************************************)
EXTENDS Integers, Sequences, FiniteSets, TLC

\* ---------------------------------------------------------------- bounds
MaxLen == 2        \* longest --characters string
MaxGlyph == 2      \* largest right/bottom value the font reports
MaxNameLen == 5    \* longest --spritesheet_name given to the validator alone

\* ---------------------------------------------------------------- inputs
Chars == {"A", "B", "/"}
NameChars == {".", "p", "P", "n", "g", "G", "Idot"}
Paddings ==
    { <<0, 0, 0, 0>>, <<1, 1, 1, 1>>, <<1, 0, 0, 1>>,
      <<0 - 1, 0, 0, 0>>, <<0, 0 - 2, 0, 0>> }
FontSizes == {0, 64}
SheetNames == { <<"s">>, <<"s", ".", "P", "N", "G">> }
GlyphBoxes == (0..MaxGlyph) \X {1, 2}
output_folder == <<"o">>

RECURSIVE StringsUpTo(_, _)
StringsUpTo(S, n) ==
    IF n = 0 THEN { <<>> }
    ELSE LET shorter == StringsUpTo(S, n - 1)
         IN  shorter \cup { Append(s, c) : s \in { t \in shorter : Len(t) = n - 1 }, c \in S }

\* ---------------------------------------------------------------- strings
PNG == <<".", "p", "n", "g">>

\* str.lower() on one character; U+0130 lower-cases to two code points.
LowerChar(c) ==
    CASE c = "P" -> <<"p">>
      [] c = "N" -> <<"n">>
      [] c = "G" -> <<"g">>
      [] c = "Idot" -> <<"i", "dot">>
      [] OTHER -> <<c>>

RECURSIVE Lower(_)
Lower(s) == IF s = <<>> THEN <<>> ELSE LowerChar(Head(s)) \o Lower(Tail(s))

EndsWith(s, suffix) ==
    /\ Len(s) >= Len(suffix)
    /\ SubSeq(s, Len(s) - Len(suffix) + 1, Len(s)) = suffix

Warning(name) == <<"Warning", name, name \o PNG>>

validate_case_sensitive(name) ==
    IF ~EndsWith(name, PNG)
    THEN [name |-> name \o PNG, printed |-> << Warning(name) >>]
    ELSE [name |-> name, printed |-> <<>>]

validate_spritesheet_name(name) ==
    IF ~EndsWith(Lower(name), PNG)
    THEN [name |-> name \o PNG, printed |-> << Warning(name) >>]
    ELSE [name |-> name, printed |-> <<>>]

\* os.path.join: an absolute second component discards the first.
PathJoin(a, b) ==
    IF b # <<>> /\ b[1] = "/" THEN b
    ELSE IF a = <<>> \/ a[Len(a)] = "/" THEN a \o b
    ELSE a \o <<"/">> \o b

CharFileNameFixed(c) == <<"c">> \o PNG

CharFileName(c) == <<c>> \o PNG

LastIndex(s, c) ==
    IF \E n \in DOMAIN s : s[n] = c
    THEN CHOOSE n \in DOMAIN s : s[n] = c /\ \A m \in DOMAIN s : s[m] = c => m <= n
    ELSE 0

\* os.path.splitext(path)[1]: the last dot of the base name starts the extension,
\* unless only dots precede it there.
SplitExt(path) ==
    LET sep == LastIndex(path, "/")
        dot == LastIndex(path, ".")
    IN  IF dot > sep /\ \E n \in (sep + 1)..(dot - 1) : path[n] # "."
        THEN SubSeq(path, dot, Len(path))
        ELSE <<>>

\* Image.save picks the format from the lower-cased extension and raises
\* ValueError (unknown file extension) before opening anything when there is none.
KnownExtension(path) == Lower(SplitExt(path)) = PNG

\* ---------------------------------------------------------------- images
Clear == [c |-> "black", a |-> 0]        \* (0, 0, 0, 0)
BgPixel == [c |-> "bg", a |-> 255]       \* bg_color
TextPixel == [c |-> "text", a |-> 255]   \* text_color

Pixels(w, h) == (0..(w - 1)) \X (0..(h - 1))

\* px is the pixel buffer.  ink and text record what draw.text was asked to put on
\* the image: the pixels it drew and the characters drawn.
NoImage == [mode |-> "none", width |-> 0, height |-> 0,
            px |-> [p \in {} |-> Clear], ink |-> {}, text |-> <<>>]

\* Image.new raises ValueError for a negative width or height.
SizeAccepted(w, h) == w >= 0 /\ h >= 0

ImageNew(mode, w, h, color) ==
    [mode |-> mode, width |-> w, height |-> h,
     px |-> [p \in Pixels(w, h) |-> color], ink |-> {}, text |-> <<>>]

\* draw.text inks the glyph's box, placed at xy and clipped to the canvas.
DrawText(img, xy, ch, box, fill) ==
    LET drawn == { p \in Pixels(img.width, img.height) :
                     /\ p[1] - xy[1] \in 0..(box[1] - 1)
                     /\ p[2] - xy[2] \in 0..(box[2] - 1) }
    IN  [img EXCEPT !.px = [p \in DOMAIN img.px |-> IF p \in drawn THEN fill ELSE img.px[p]],
                    !.ink = img.ink \cup drawn,
                    !.text = Append(img.text, ch)]

\* paste reads the mask's alpha band; an RGB image has none ("bad transparency mask").
MaskAccepted(mask) == mask.mode \in {"RGBA", "RGBa", "LA", "L", "1"}

Shift(S, x, y) == { <<p[1] + x, p[2] + y>> : p \in S }

Paste(sheet, img, x, y, mask) ==
    LET covered == { p \in DOMAIN sheet.px :
                       /\ <<p[1] - x, p[2] - y>> \in DOMAIN img.px
                       /\ mask.px[<<p[1] - x, p[2] - y>>].a = 255 }
    IN  [sheet EXCEPT
           !.px = [p \in DOMAIN sheet.px |->
                     IF p \in covered THEN img.px[<<p[1] - x, p[2] - y>>] ELSE sheet.px[p]]]

\* The PNG encoder refuses an image without pixels.
Encodable(img) == img.width > 0 /\ img.height > 0

WriteFile(fs, path, content) ==
    [p \in DOMAIN fs \cup {path} |-> IF p = path THEN content ELSE fs[p]]

Max(a, b) == IF a > b THEN a ELSE b

\* ---------------------------------------------------------------- state
VARIABLES
    characters, font_size, padding, bg_type, export_type,   \* arguments
    spritesheet_name,                                       \* argument, rebound at line 28
    fontFile, dirCreatable,                                 \* the environment
    pc, error, font, dirExists,
    images, max_height, total_width,
    i, img_width, img_height, image,
    spritesheet, x_offset, k,
    files, stdout, calls, pasted,
    vname, vfirst, vresult, vprinted, vcalls                \* the validator called alone

args == <<characters, font_size, padding, bg_type, export_type>>
env == <<fontFile, dirCreatable>>
loopvars == <<i, img_width, img_height, image>>
totals == <<images, max_height, total_width>>
sheetvars == <<spritesheet, x_offset, k, pasted>>
vvars == <<vname, vfirst, vresult, vprinted, vcalls>>
vars == <<args, spritesheet_name, env, pc, error, font, dirExists, totals, loopvars,
          sheetvars, files, stdout, calls, vvars>>

EmptyFiles == [p \in {} |-> NoImage]
NoFont == [c \in {} |-> <<0, 0>>]

RenderIdle ==
    /\ pc = "validate" /\ error = "none"
    /\ font = NoFont /\ dirExists = FALSE
    /\ images = <<>> /\ max_height = 0 /\ total_width = 0
    /\ i = 0 /\ img_width = 0 /\ img_height = 0 /\ image = NoImage
    /\ spritesheet = NoImage /\ x_offset = 0 /\ k = 0 /\ pasted = <<>>
    /\ files = EmptyFiles /\ stdout = <<>> /\ calls = <<>>

ValidatorIdle ==
    /\ vname = <<>> /\ vfirst = <<>> /\ vresult = <<>> /\ vprinted = <<>> /\ vcalls = 0

Init ==
    /\ characters \in StringsUpTo(Chars, MaxLen)
    /\ font_size \in FontSizes
    /\ padding \in Paddings
    /\ bg_type \in {"transparent", "filled"}
    /\ export_type \in {"separate", "spritesheet"}
    /\ spritesheet_name \in SheetNames
    /\ fontFile \in BOOLEAN
    /\ dirCreatable \in BOOLEAN
    /\ RenderIdle
    /\ ValidatorIdle

Fail(what) == pc' = "failed" /\ error' = what

\* ---------------------------------------------------------------- render_font
ValidateName ==
    /\ pc = "validate"
    /\ LET r == IF export_type = "spritesheet"
                THEN validate_spritesheet_name(spritesheet_name)
                ELSE [name |-> spritesheet_name, printed |-> <<>>]
       IN  /\ spritesheet_name' = r.name
           /\ stdout' = stdout \o r.printed
    /\ pc' = "truetype"
    /\ UNCHANGED <<args, env, error, font, dirExists, totals, loopvars, sheetvars,
                   files, calls, vvars>>

FontLoadable == fontFile /\ font_size > 0

LoadFontAfterMakeDirs ==
    /\ pc = "truetype"
    /\ calls' = Append(calls, <<"truetype", 0>>)
    /\ IF FontLoadable
       THEN pc' = "makedirs" /\ UNCHANGED <<error, dirExists>>
       ELSE Fail("font") /\ dirExists' = dirCreatable
    /\ UNCHANGED <<args, spritesheet_name, env, font, totals, loopvars,
                   sheetvars, files, stdout, vvars>>

LoadFont ==
    /\ pc = "truetype"
    /\ calls' = Append(calls, <<"truetype", 0>>)
    /\ IF FontLoadable
       THEN pc' = "makedirs" /\ UNCHANGED error
       ELSE Fail("font")
    /\ UNCHANGED <<args, spritesheet_name, env, font, dirExists, totals, loopvars,
                   sheetvars, files, stdout, vvars>>

\* Where the for statement of line 40 goes once n characters are finished.
LoopTarget(n) == IF n < Len(characters) THEN "getbbox" ELSE "compose"

MakeDirs ==
    /\ pc = "makedirs"
    /\ calls' = Append(calls, <<"makedirs", 0>>)
    /\ IF dirCreatable
       THEN /\ dirExists' = TRUE
            /\ images' = <<>> /\ max_height' = 0 /\ total_width' = 0
            /\ pc' = LoopTarget(0)
            /\ UNCHANGED error
       ELSE Fail("makedirs") /\ UNCHANGED <<dirExists, totals>>
    /\ UNCHANGED <<args, spritesheet_name, env, font, loopvars, sheetvars,
                   files, stdout, vvars>>

char == characters[i + 1]

CanvasWidth(box) == box[1] + padding[1] + padding[3]
CanvasHeight(box) == box[2] + padding[2] + padding[4]

Measure ==
    /\ pc = "getbbox"
    /\ \E box \in GlyphBoxes :
         /\ char \in DOMAIN font => box = font[char]
         /\ font' = [c \in DOMAIN font \cup {char} |-> IF c = char THEN box ELSE font[c]]
         /\ img_width' = CanvasWidth(box)
         /\ img_height' = CanvasHeight(box)
    /\ calls' = Append(calls, <<"getbbox", i + 1>>)
    /\ pc' = "new"
    /\ UNCHANGED <<args, spritesheet_name, env, error, dirExists, totals, i, image,
                   sheetvars, files, stdout, vvars>>

GlyphCanvasOpaque(w, h) == ImageNew("RGBA", w, h, BgPixel)

GlyphCanvas(w, h) ==
    IF bg_type = "transparent"
    THEN ImageNew("RGBA", w, h, Clear)
    ELSE ImageNew("RGB", w, h, BgPixel)

NewCanvas ==
    /\ pc = "new"
    /\ calls' = Append(calls, <<"new", i + 1>>)
    /\ IF SizeAccepted(img_width, img_height)
       THEN /\ image' = GlyphCanvas(img_width, img_height)
            /\ pc' = "text"
            /\ UNCHANGED error
       ELSE Fail("size") /\ UNCHANGED image
    /\ UNCHANGED <<args, spritesheet_name, env, font, dirExists, totals, i, img_width,
                   img_height, sheetvars, files, stdout, vvars>>

text_xy == <<padding[1], padding[2]>>

DrawGlyph ==
    /\ pc = "text"
    /\ calls' = Append(calls, <<"text", i + 1>>)
    /\ image' = DrawText(image, text_xy, char, font[char], TextPixel)
    /\ pc' = "store"
    /\ UNCHANGED <<args, spritesheet_name, env, error, font, dirExists, totals, i,
                   img_width, img_height, sheetvars, files, stdout, vvars>>

CharPath == PathJoin(output_folder, CharFileName(char))

\* Image.save opens no file for an unknown extension and removes the file it
\* created when the encoder fails.
FailedSave(fs, path) == fs

SavesEachAlways == TRUE

SavesEach == export_type = "separate"

SaveSeparate ==
    /\ pc = "store"
    /\ SavesEach
    /\ calls' = Append(calls, <<"save", i + 1>>)
    /\ IF KnownExtension(CharPath) /\ Encodable(image)
       THEN /\ files' = WriteFile(files, CharPath, [image |-> image, by |-> i + 1])
            /\ i' = i + 1
            /\ pc' = LoopTarget(i + 1)
            /\ UNCHANGED error
       ELSE /\ files' = FailedSave(files, CharPath)
            /\ Fail("save")
            /\ UNCHANGED i
    /\ UNCHANGED <<args, spritesheet_name, env, font, dirExists, totals, img_width,
                   img_height, image, sheetvars, stdout, vvars>>

HeightOfLast(mh, h) == h

NewMaxHeight(mh, h) == Max(mh, h)

Retain ==
    /\ pc = "store"
    /\ ~SavesEach
    /\ calls' = Append(calls, <<"append", i + 1>>)
    /\ images' = Append(images, image)
    /\ max_height' = NewMaxHeight(max_height, img_height)
    /\ total_width' = total_width + img_width
    /\ i' = i + 1
    /\ pc' = LoopTarget(i + 1)
    /\ UNCHANGED <<args, spritesheet_name, env, error, font, dirExists, img_width,
                   img_height, image, sheetvars, files, stdout, vvars>>

ComposesWheneverSheet == export_type = "spritesheet"

Composes == export_type = "spritesheet" /\ images # <<>>

SheetFill == IF bg_type = "transparent" THEN Clear ELSE BgPixel

Compose ==
    /\ pc = "compose"
    /\ IF Composes
       THEN /\ calls' = Append(calls, <<"new", 0>>)
            /\ IF SizeAccepted(total_width, max_height)
               THEN /\ spritesheet' = ImageNew("RGBA", total_width, max_height, SheetFill)
                    /\ x_offset' = 0
                    /\ k' = 0
                    /\ pc' = IF 0 < Len(images) THEN "paste" ELSE "save"
                    /\ UNCHANGED error
               ELSE Fail("size") /\ UNCHANGED <<spritesheet, x_offset, k>>
       ELSE /\ pc' = "print"
            /\ UNCHANGED <<calls, error, spritesheet, x_offset, k>>
    /\ UNCHANGED <<args, spritesheet_name, env, font, dirExists, totals, loopvars,
                   pasted, files, stdout, vvars>>

OffsetUnmoved(x, img) == x

NextOffset(x, img) == x + img.width

Changed(before, after) == { p \in DOMAIN before.px : after.px[p] # before.px[p] }

PasteGlyph ==
    /\ pc = "paste"
    /\ LET img == images[k + 1]
           after == Paste(spritesheet, img, x_offset, 0, img)
       IN  /\ calls' = Append(calls, <<"paste", k + 1>>)
           /\ IF MaskAccepted(img)
              THEN /\ spritesheet' = after
                   /\ pasted' = Append(pasted, [at |-> <<x_offset, 0>>, img |-> img,
                                                changed |-> Changed(spritesheet, after)])
                   /\ x_offset' = NextOffset(x_offset, img)
                   /\ k' = k + 1
                   /\ pc' = IF k + 1 < Len(images) THEN "paste" ELSE "save"
                   /\ UNCHANGED error
              ELSE Fail("mask") /\ UNCHANGED <<spritesheet, pasted, x_offset, k>>
    /\ UNCHANGED <<args, spritesheet_name, env, font, dirExists, totals, loopvars,
                   files, stdout, vvars>>

SheetPath == PathJoin(output_folder, spritesheet_name)

SaveSheet ==
    /\ pc = "save"
    /\ calls' = Append(calls, <<"save", 0>>)
    /\ IF KnownExtension(SheetPath) /\ Encodable(spritesheet)
       THEN /\ files' = WriteFile(files, SheetPath, [image |-> spritesheet, by |-> 0])
            /\ pc' = "print"
            /\ UNCHANGED error
       ELSE /\ files' = FailedSave(files, SheetPath)
            /\ Fail("save")
    /\ UNCHANGED <<args, spritesheet_name, env, font, dirExists, totals, loopvars,
                   sheetvars, stdout, vvars>>

Complete ==
    /\ pc = "print"
    /\ stdout' = Append(stdout, <<"Rendering complete!">>)
    /\ pc' = "done"
    /\ UNCHANGED <<args, spritesheet_name, env, error, font, dirExists, totals, loopvars,
                   sheetvars, files, calls, vvars>>

Next ==
    \/ ValidateName
    \/ LoadFont
    \/ MakeDirs
    \/ Measure
    \/ NewCanvas
    \/ DrawGlyph
    \/ SaveSeparate
    \/ Retain
    \/ Compose
    \/ PasteGlyph
    \/ SaveSheet
    \/ Complete

Spec == Init /\ [][Next]_vars

\* ---------------------------------------------------------------- the validator alone
renderargs == <<args, spritesheet_name, env, pc, error, font, dirExists, totals, loopvars,
                sheetvars, files, stdout, calls>>

InitName ==
    /\ vname \in StringsUpTo(NameChars, MaxNameLen)
    /\ vfirst = <<>> /\ vresult = <<>> /\ vprinted = <<>> /\ vcalls = 0
    /\ characters = <<>> /\ font_size = 64 /\ padding = <<0, 0, 0, 0>>
    /\ bg_type = "transparent" /\ export_type = "separate"
    /\ spritesheet_name = <<>>
    /\ fontFile = TRUE /\ dirCreatable = TRUE
    /\ RenderIdle

ValidateInput ==
    /\ vcalls = 0
    /\ LET r == validate_spritesheet_name(vname)
       IN  /\ vfirst' = r.name
           /\ vresult' = r.name
           /\ vprinted' = vprinted \o r.printed
    /\ vcalls' = 1
    /\ UNCHANGED <<vname, renderargs>>

ValidateResult ==
    /\ vcalls = 1
    /\ LET r == validate_spritesheet_name(vresult)
       IN  /\ vresult' = r.name
           /\ vprinted' = vprinted \o r.printed
    /\ vcalls' = 2
    /\ UNCHANGED <<vname, vfirst, renderargs>>

NextName == ValidateInput \/ ValidateResult

SpecName == InitName /\ [][NextName]_vars

\* ---------------------------------------------------------------- properties
Last(s) == s[Len(s)]
Range(s) == { s[n] : n \in DOMAIN s }

EndsWithPngAnyCase(s) ==
    /\ Len(s) >= 4
    /\ s[Len(s) - 3] = "."
    /\ s[Len(s) - 2] \in {"p", "P"}
    /\ s[Len(s) - 1] \in {"n", "N"}
    /\ s[Len(s)] \in {"g", "G"}

\* C1: once the validator has returned, a name that did not end with ".png" (in
\* any letter case) came back with ".png" appended once and one warning printed, a
\* name that did came back unchanged with nothing printed, the result ends with
\* ".png" in some letter case, and validating the result again returns it
\* unchanged and prints nothing more.
C1_ValidatorContract ==
    vcalls >= 1 =>
        /\ ~EndsWithPngAnyCase(vname) => vfirst = vname \o PNG /\ Len(vprinted) = 1
        /\ EndsWithPngAnyCase(vname) => vfirst = vname /\ vprinted = <<>>
        /\ EndsWithPngAnyCase(vfirst)
        /\ vresult = vfirst

C1_Witness ==
    /\ vcalls = 2
    /\ EndsWithPngAnyCase(vname)
    /\ ~EndsWith(vname, PNG)
    /\ vresult = vname

\* The canvas size the n-th character of the input asks for.
WidthOf(n) == font[characters[n]][1] + padding[1] + padding[3]
HeightOf(n) == font[characters[n]][2] + padding[2] + padding[4]

RECURSIVE SumWidths(_)
SumWidths(n) == IF n = 0 THEN 0 ELSE SumWidths(n - 1) + WidthOf(n)

IsMaxHeight(m, n) ==
    /\ \E j \in 1..n : m = HeightOf(j)
    /\ \A j \in 1..n : m >= HeightOf(j)

\* C2: in spritesheet mode, after every loop iteration total_width is the sum and
\* max_height the maximum of the canvas sizes of the characters processed so far
\* (duplicates counted each time), and the sheet that is allocated, and the sheet
\* file that is saved, has the sum over all characters as its width and the
\* maximum over all characters as its height.
C2_SheetSize ==
    (export_type = "spritesheet" /\ pc \notin {"validate", "truetype", "makedirs"}
        /\ error \notin {"font", "makedirs"}) =>
        /\ Len(images) = i
        /\ total_width = SumWidths(i)
        /\ i >= 1 => IsMaxHeight(max_height, i)
        /\ spritesheet # NoImage =>
              /\ characters # <<>>
              /\ i = Len(characters)
              /\ spritesheet.width = SumWidths(Len(characters))
              /\ IsMaxHeight(spritesheet.height, Len(characters))
        /\ \A p \in DOMAIN files :
              /\ files[p].image.width = SumWidths(Len(characters))
              /\ IsMaxHeight(files[p].image.height, Len(characters))

C2_Witness ==
    /\ export_type = "spritesheet"
    /\ pc = "done"
    /\ Len(characters) = 2
    /\ HeightOf(2) < HeightOf(1)
    /\ WidthOf(1) > 0 /\ WidthOf(2) > 0
    /\ DOMAIN files # {}

InFolder(path) ==
    /\ Len(path) > Len(output_folder) + 1
    /\ SubSeq(path, 1, Len(output_folder) + 1) = output_folder \o <<"/">>
    /\ \A n \in (Len(output_folder) + 2)..Len(path) : path[n] # "/"

FolderNames ==
    { SubSeq(p, Len(output_folder) + 2, Len(p)) : p \in { q \in DOMAIN files : InFolder(q) } }

\* C3: a separate-mode run over a non-empty string that ends normally has written
\* into the output folder exactly the files "<c>.png" for the characters c of the
\* string, one per distinct character, each holding the canvas the last occurrence
\* of its character drew, and nothing else anywhere (so no sheet file).
C3_SeparateFiles ==
    (export_type = "separate" /\ characters # <<>> /\ pc = "done") =>
        /\ FolderNames = { <<c, ".", "p", "n", "g">> : c \in Range(characters) }
        /\ \A p \in DOMAIN files : InFolder(p)
        /\ Cardinality(DOMAIN files) = Cardinality(Range(characters))
        /\ \A c \in Range(characters) :
              LET p == output_folder \o <<"/", c, ".", "p", "n", "g">>
              IN  /\ p \in DOMAIN files
                  /\ files[p].by = LastIndex(characters, c)
                  /\ files[p].image.text = <<c>>
        /\ spritesheet = NoImage

C3_Witness ==
    /\ export_type = "separate"
    /\ pc = "done"
    /\ characters = <<"B", "B">>
    /\ Cardinality(DOMAIN files) = Cardinality(Range(characters))
    /\ files[<<"o", "/", "B", ".", "p", "n", "g">>].by = Len(characters)

\* C4: a spritesheet-mode run over the empty string, with a loadable font and a
\* creatable output folder, never fails, never allocates a sheet canvas, writes no
\* file, can always take its next step until it is done, and is done only after
\* printing the completion message.
C4_EmptySheet ==
    (export_type = "spritesheet" /\ characters = <<>> /\ FontLoadable /\ dirCreatable) =>
        /\ pc # "failed"
        /\ spritesheet = NoImage
        /\ \A n \in DOMAIN calls : calls[n][1] # "new"
        /\ files = EmptyFiles
        /\ pc # "done" => ENABLED Next
        /\ pc = "done" => stdout # <<>> /\ Last(stdout) = <<"Rendering complete!">>

C4_Witness ==
    /\ export_type = "spritesheet" /\ characters = <<>>
    /\ pc = "done"
    /\ Last(stdout) = <<"Rendering complete!">>
    /\ files = EmptyFiles

\* The sheet pixels that draw.text inked, through the canvases pasted so far.
SheetInk ==
    UNION { Shift(pasted[n].img.ink, pasted[n].at[1], pasted[n].at[2]) : n \in DOMAIN pasted }

\* C5: in spritesheet mode with a filled background and a non-empty string, no
\* paste is refused for its mask, and a run that is done has written exactly one
\* file, the sheet, whose pixels outside the drawn glyph regions all equal the
\* background colour.
C5_FilledSheet ==
    (export_type = "spritesheet" /\ bg_type = "filled" /\ characters # <<>>) =>
        /\ error # "mask"
        /\ pc = "done" =>
              /\ DOMAIN files = {SheetPath}
              /\ \A p \in DOMAIN spritesheet.px \ SheetInk : spritesheet.px[p] = BgPixel

OutsideInkClear(img) == \A p \in DOMAIN img.px \ img.ink : img.px[p].a = 0

\* C6: with a transparent background every glyph canvas, retained, in progress or
\* saved, has alpha 0 at every pixel draw.text did not ink; the sheet, composed or
\* saved, has alpha 0 at every pixel outside the inked regions of the canvases
\* pasted so far; and each paste changed sheet pixels only inside the inked
\* region of the canvas it pasted.
C6_TransparentOutsideInk ==
    bg_type = "transparent" =>
        /\ OutsideInkClear(image)
        /\ \A n \in DOMAIN images : OutsideInkClear(images[n])
        /\ \A p \in DOMAIN spritesheet.px \ SheetInk : spritesheet.px[p].a = 0
        /\ \A n \in DOMAIN pasted :
              pasted[n].changed \subseteq Shift(pasted[n].img.ink, pasted[n].at[1], pasted[n].at[2])
        /\ \A p \in DOMAIN files :
              IF files[p].by = 0
              THEN \A q \in DOMAIN files[p].image.px \ SheetInk : files[p].image.px[q].a = 0
              ELSE OutsideInkClear(files[p].image)

C6_Witness ==
    /\ bg_type = "transparent" /\ export_type = "spritesheet"
    /\ pc = "done"
    /\ padding = <<1, 1, 1, 1>>
    /\ Len(pasted) = 2
    /\ pasted[1].changed # {} /\ pasted[2].changed # {}
    /\ pasted[1].img.height < pasted[2].img.height
    /\ \E p \in DOMAIN files : files[p].by = 0

\* C7: every canvas allocated for a character has width = glyph width + left +
\* right padding and height = glyph height + top + bottom padding, both positive,
\* and once drawn carries the glyph at offset (left padding, top padding).
C7_CanvasPositive ==
    pc \in {"text", "store"} =>
        /\ image.width = font[char][1] + padding[1] + padding[3]
        /\ image.height = font[char][2] + padding[2] + padding[4]
        /\ image.width > 0
        /\ image.height > 0
        /\ pc = "store" =>
              image.ink = Shift(Pixels(font[char][1], font[char][2]), padding[1], padding[2])
                             \cap Pixels(image.width, image.height)

RECURSIVE WidthsBefore(_)
WidthsBefore(n) == IF n = 1 THEN 0 ELSE WidthsBefore(n - 1) + images[n - 1].width

Span(n) == pasted[n].at[1]..(pasted[n].at[1] + pasted[n].img.width - 1)

\* C8: in spritesheet mode the n-th paste is of the canvas of the n-th character
\* of the input, at x = the sum of the widths of the canvases before it and y = 0;
\* the horizontal spans of the pasted canvases are pairwise disjoint and stay
\* within the sheet, no canvas is taller than the sheet, and once every canvas has
\* been pasted the spans cover exactly [0, sheet width).
C8_PasteOrder ==
    export_type = "spritesheet" =>
        /\ Len(pasted) = k
        /\ \A n \in DOMAIN pasted :
              /\ pasted[n].img = images[n]
              /\ pasted[n].img.text = <<characters[n]>>
              /\ pasted[n].at = <<WidthsBefore(n), 0>>
              /\ Span(n) \subseteq 0..(spritesheet.width - 1)
              /\ pasted[n].img.height <= spritesheet.height
              /\ \A m \in 1..(n - 1) : Span(m) \cap Span(n) = {}
        /\ pc \in {"save", "print", "done"} /\ spritesheet # NoImage =>
              /\ Len(pasted) = Len(characters)
              /\ UNION { Span(n) : n \in DOMAIN pasted } = 0..(spritesheet.width - 1)

C8_Witness ==
    /\ export_type = "spritesheet"
    /\ pc = "done"
    /\ characters = <<"/", "A">>
    /\ Len(pasted) = 2
    /\ pasted[1].img.width > 0
    /\ pasted[2].img.width > 0
    /\ pasted[2].at[1] = pasted[1].img.width

Printed(line) == \E n \in DOMAIN stdout : stdout[n] = line
Called(op) == \E n \in DOMAIN calls : calls[n][1] = op

\* C9: when the font does not load the run stops at the load: the output folder
\* is never created, nothing is measured, drawn or written and no completion
\* message is printed; when the font loads but the output folder cannot be
\* created the run stops at makedirs with nothing measured, drawn or written
\* and no completion message.
C9_ErrorOrdering ==
    /\ ~FontLoadable =>
          /\ pc \in {"validate", "truetype", "failed"}
          /\ pc = "failed" => error = "font"
          /\ ~dirExists
          /\ ~Called("makedirs")
    /\ (FontLoadable /\ ~dirCreatable) =>
          /\ pc \in {"validate", "truetype", "makedirs", "failed"}
          /\ pc = "failed" => error = "makedirs"
          /\ ~dirExists
    /\ error \in {"font", "makedirs"} =>
          /\ pc = "failed"
          /\ files = EmptyFiles
          /\ ~Printed(<<"Rendering complete!">>)
          /\ \A op \in {"getbbox", "new", "text", "save", "append", "paste"} : ~Called(op)
          /\ error = "font" => ~dirExists /\ ~Called("makedirs")

C9_Witness ==
    /\ pc = "failed"
    /\ error = "font"
    /\ dirCreatable
    /\ characters # <<>>

IsCharCall(c) == c[2] >= 1 /\ c[1] # "paste"
CharCalls == SelectSeq(calls, IsCharCall)
StepNames ==
    <<"getbbox", "new", "text", IF export_type = "separate" THEN "save" ELSE "append">>

\* C10: the calls made for the characters are, in this order, measure, allocate,
\* draw and save-or-retain for the first character, then the same for the second,
\* and so on.  In separate mode the files written are at every moment exactly those
\* of the characters already finished, so a run that fails on the k-th character
\* leaves those of the first k-1.  In spritesheet mode a failed run has written
\* no file, a file exists only once every character has been processed and is
\* the sheet, and the sheet is saved at most once.
C10_PartialRun ==
    /\ \A n \in DOMAIN CharCalls :
          CharCalls[n] = <<StepNames[((n - 1) % 4) + 1], ((n - 1) \div 4) + 1>>
    /\ pc \in {"getbbox", "new", "text", "store"} => Len(CharCalls) \div 4 = i
    /\ export_type = "separate" =>
          DOMAIN files = { PathJoin(output_folder, CharFileName(characters[n])) : n \in 1..i }
    /\ export_type = "spritesheet" =>
          /\ pc = "failed" => files = EmptyFiles
          /\ files # EmptyFiles =>
                /\ DOMAIN files = {SheetPath}
                /\ i = Len(characters)
                /\ pc \in {"print", "done"}
          /\ Cardinality({ n \in DOMAIN calls : calls[n] = <<"save", 0>> }) <= 1

C10_Witness ==
    /\ export_type = "separate"
    /\ pc = "failed"
    /\ error \in {"size", "save"}
    /\ i = 1
    /\ Len(characters) = 2
    /\ Cardinality(DOMAIN files) = 1

====
